---- MODULE Spec2Model ----
(***************************************************************************)
(* Model of chords_ai: the chord generator (chords_ai/generator.py,        *)
(* ChordsAI) and the chord player (chords_ai/player.py,                    *)
(* ChordSequencePlayer).                                                   *)
(*                                                                         *)
(* A Python str is a sequence of one-character strings, so that split and  *)
(* join are computed and not assumed.  The Keras model and                 *)
(* numpy.random.choice are nondeterministic: any probability vector over   *)
(* the vocabulary, any index of positive probability.                      *)
(***************************************************************************)
EXTENDS Integers, Sequences, FiniteSets, TLC

\* ------------------------------------------------------------------ bounds
MaxVocab == 2        \* longest vocabulary resource (JSON array)
MaxL == 2            \* largest window length declared by the model
MaxN == 2            \* largest n_chords_to_generate
MaxSeedChars == 4    \* longest seed string, in characters
MaxPlayChars == 3    \* longest string handed to play, in characters
MaxRate == 2         \* largest sample rate

\* ----------------------------------------------------------------- strings
Chars == {"A", "m", " "}

\* code points, for the ordering sorted() uses on str
CharCode == [c \in Chars |-> CASE c = " " -> 32 [] c = "A" -> 65 [] c = "m" -> 109]

Str(n) == UNION {[1..k -> Chars] : k \in 0..n}

Range(s) == {s[i] : i \in 1..Len(s)}

RECURSIVE SplitSpaceFrom(_, _, _, _)
SplitSpaceFrom(s, i, cur, out) ==
    IF i > Len(s) THEN Append(out, cur)
    ELSE IF s[i] = " " THEN SplitSpaceFrom(s, i + 1, <<>>, Append(out, cur))
    ELSE SplitSpaceFrom(s, i + 1, Append(cur, s[i]), out)

\* str.split(" "): every single space separates, empty fields are kept
SplitSpace(s) == SplitSpaceFrom(s, 1, <<>>, <<>>)

NonEmptyField(t) == t # <<>>

\* str.split(): runs of whitespace separate, no empty field is produced
SplitWhitespace(s) == SelectSeq(SplitSpace(s), NonEmptyField)

RECURSIVE Join(_)
\* " ".join(tokens)
Join(tokens) ==
    IF tokens = <<>> THEN <<>>
    ELSE IF Len(tokens) = 1 THEN tokens[1]
    ELSE tokens[1] \o <<" ">> \o Join(Tail(tokens))

RECURSIVE StrLess(_, _)
\* a < b on Python str (lexicographic on code points)
StrLess(a, b) ==
    IF b = <<>> THEN FALSE
    ELSE IF a = <<>> THEN TRUE
    ELSE IF CharCode[a[1]] # CharCode[b[1]] THEN CharCode[a[1]] < CharCode[b[1]]
    ELSE StrLess(Tail(a), Tail(b))

RECURSIVE InsertSorted(_, _)
InsertSorted(x, s) ==
    IF s = <<>> THEN <<x>>
    ELSE IF StrLess(x, s[1]) THEN <<x>> \o s
    ELSE <<s[1]>> \o InsertSorted(x, Tail(s))

RECURSIVE Sorted(_)
\* sorted(list of str), stable
Sorted(s) == IF s = <<>> THEN <<>> ELSE InsertSorted(s[Len(s)], Sorted(SubSeq(s, 1, Len(s) - 1)))

\* -------------------------------------------------------------- resources
\* chord names a vocabulary resource may list
ChordNames == {<<"A">>, <<"A", "m">>, <<"m">>}

NoDuplicates(s) == \A i, j \in 1..Len(s) : s[i] = s[j] => i = j

\* a JSON array of chord names
VocabularyResources == UNION {[1..k -> ChordNames] : k \in 1..MaxVocab}

\* the resource shipped with the package lists every chord once
PackagedVocabularies == {v \in VocabularyResources : NoDuplicates(v)}

\* ------------------------------------------------------- ChordsAI.__init__
\* faulty variant: the indices counted from 1 (enumerate(vocabulary, 1))
MappingFromOne(voc) ==
    [k \in Range(voc) |->
        CHOOSE i \in 1..Len(voc) :
            /\ voc[i] = k
            /\ \A j \in 1..Len(voc) : voc[j] = k => j <= i]

\* {k: v for k, v in zip(vocabulary, range(len(vocabulary)))}: a later pair
\* with the same key replaces the earlier one
Mapping(voc) ==
    [k \in Range(voc) |->
        CHOOSE i \in 0..(Len(voc) - 1) :
            /\ voc[i + 1] = k
            /\ \A j \in 0..(Len(voc) - 1) : voc[j + 1] = k => j <= i]

\* faulty variant: the inverse mapping built from the vocabulary in reverse order
InverseMappingReversed(voc) == [i \in 0..(Len(voc) - 1) |-> voc[Len(voc) - i]]

\* {v: k for k, v in zip(vocabulary, range(len(vocabulary)))}
InverseMapping(voc) == [i \in 0..(Len(voc) - 1) |-> voc[i + 1]]

\* ---------------------------------------------------- ChordsAI.generate_seq
\* faulty variant: the assertion accepts a seed that is longer than the window
SeedLengthAtLeast(chords, L) == Len(chords) >= L

\* the assertion on the number of seed tokens
SeedLengthOk(chords, L) == Len(chords) = L

\* [self._mapping[char] for char in chord_sequence]; KeyError on a token
\* that is no key
CanEncode(m, chords) == \A i \in 1..Len(chords) : chords[i] \in DOMAIN m

Encode(m, chords) == [i \in 1..Len(chords) |-> m[chords[i]]]

\* number of 0 entries pad_sequences puts in front (padding='pre')
PadCount(enc, maxlen) == IF Len(enc) < maxlen THEN maxlen - Len(enc) ELSE 0

\* faulty variant: truncating='post', the first maxlen entries are kept
PadSequencesPost(enc, maxlen) ==
    IF Len(enc) >= maxlen THEN SubSeq(enc, 1, maxlen)
    ELSE [i \in 1..PadCount(enc, maxlen) |-> 0] \o enc

\* pad_sequences([enc], maxlen=maxlen, truncating='pre')[0]
PadSequences(enc, maxlen) ==
    IF Len(enc) >= maxlen THEN SubSeq(enc, Len(enc) - maxlen + 1, Len(enc))
    ELSE [i \in 1..PadCount(enc, maxlen) |-> 0] \o enc

\* the model's output: a probability vector over the vocabulary, kept as the
\* set of indices of positive probability
Predictions(voc) == (SUBSET (0..(Len(voc) - 1))) \ {{}}

\* np.random.choice(range(len(vocabulary)), p=preds)
Choice(voc, p) == p \cap (0..(Len(voc) - 1))

\* the scan of self._mapping.items() for the sampled index, '' by default
ScanMapping(m, y) ==
    IF \E k \in DOMAIN m : m[k] = y THEN CHOOSE k \in DOMAIN m : m[k] = y ELSE <<>>

\* faulty variant: the slice starts one token early
GeneratedSuffixFromLast(chords, L) == Join(SubSeq(chords, L, Len(chords)))

\* " ".join(chord_sequence[self.length_of_sequences:])
GeneratedSuffix(chords, L) == Join(SubSeq(chords, L + 1, Len(chords)))

\* ------------------------------------------- ChordSequencePlayer resources
NoteNames == {"A", "C", "C#", "E"}

Semitone == [x \in NoteNames |-> CASE x = "C" -> 0 [] x = "C#" -> 1 [] x = "E" -> 4 [] x = "A" -> 9]

\* lazy_midi.str2midi("%s5" % x)
Str2Midi(x, octave) == 12 * (octave + 1) + Semitone[x]

\* chords_components.yml as loaded by __init__: chord name -> note names
ChordComponents == (<<"A">> :> <<"A", "C#", "E">>) @@ (<<"A", "m">> :> <<"A", "C", "E">>)

\* what a failed dictionary lookup leaves instead of a value
KeyError == <<"KeyError">>

\* self._components.get(chord, []): an unknown chord has no notes
ComponentsOrSilence(table, chord) == IF chord \in DOMAIN table THEN table[chord] ELSE <<>>

\* self._components[chord]: the notes, or KeyError
Components(table, chord) == IF chord \in DOMAIN table THEN table[chord] ELSE KeyError

\* map(lambda x: str2midi("%s5" % x), components), as the values it yields
MidiNotes(components) == [i \in 1..Len(components) |-> Str2Midi(components[i], 5)]

\* where a for loop over midi_notes starts: a list is iterated from its
\* start by every loop, a map object (an iterator) goes on from where the
\* previous loop left it
LoopStart(isIterator, consumed) == IF isIterator THEN consumed ELSE 0

\* fl.get_samples(len): len frames of the running synthesizer, one sample per
\* output channel in every frame, interleaved in one flat array (the binding
\* documents an array of size 2 * len for stereo output, its default); every
\* sample is marked with the position of the chord that sounds
GetSamples(len, channels, mark) == [i \in 1..(len * channels) |-> mark]

\* np.append(audio, s)
NpAppend(a, b) == a \o b

SynthEvent(op, arg) == [op |-> op, arg |-> arg]

\* ------------------------------------------------------------------- state
VARIABLES
    vocabulary_json,   \* content of best_songs_vocabulary.json
    _vocabulary,       \* self._vocabulary
    _mapping,          \* self._mapping
    _inverse_mapping,  \* self._inverse_mapping
    _seq_length,       \* self._seq_length
    _rate,             \* ChordSequencePlayer._rate
    map_is_iterator,   \* interpreter: map() returns an iterator (Python 3) or a list (Python 2)
    synth_channels,    \* output channels of a fluidsynth.Synth (2, stereo, unless set to mono)
    pc,                \* position of the running call
    error,             \* exception that ended the call, "" if none
    seed_chord_sequence, n_chords_to_generate,
    chord_sequence,    \* generate_seq: the running sequence
    iteration,         \* generate_seq: iterations completed
    pad_encoded,       \* generate_seq: window handed to the model
    padded,            \* generate_seq: entries pad_sequences added to the window
    preds, yhat,
    generated,         \* generate_seq: returned string
    n_encoded, n_predicted, n_sampled,  \* tokens encoded, model calls, indices drawn in this call
    seq,               \* play: the argument
    chords,            \* play: seq.split(" ")
    chord_index,       \* play: position of the chord being rendered
    midi_notes, consumed, \* _make_chord: the mapped notes and how many the iterator gave out
    loop_index,        \* _make_chord: position of the running for loop
    live, acquired,    \* synthesizer instances alive / created in this call
    events,            \* _make_chord: synthesizer calls made for the current chord
    notes_on,          \* _make_chord: notes that got a note-on for the current chord
    s,                 \* _make_chord: captured block
    audio,             \* play: the waveform so far
    displayed,         \* play: display(Audio(...)) was called
    returned           \* play: the value returned, <<"None">> before

config == <<vocabulary_json, _vocabulary, _mapping, _inverse_mapping, _seq_length, _rate,
            map_is_iterator, synth_channels>>
gen == <<seed_chord_sequence, n_chords_to_generate, chord_sequence, iteration, pad_encoded,
         padded, preds, yhat, generated, n_encoded, n_predicted, n_sampled>>
chordv == <<midi_notes, consumed, loop_index, events, notes_on, s>>
ply == <<seq, chords, chord_index, live, acquired, audio, displayed, returned>>
vars == <<config, pc, error, gen, chordv, ply>>

None == <<"None">>

GenIdle ==
    /\ seed_chord_sequence = <<>> /\ n_chords_to_generate = 0 /\ chord_sequence = <<>>
    /\ iteration = 0 /\ pad_encoded = <<>> /\ padded = 0 /\ preds = {} /\ yhat = 0
    /\ generated = None /\ n_encoded = 0 /\ n_predicted = 0 /\ n_sampled = 0

ChordIdle ==
    /\ midi_notes = <<>> /\ consumed = 0 /\ loop_index = 0 /\ events = <<>>
    /\ notes_on = <<>> /\ s = <<>>

PlayIdle ==
    /\ seq = <<>> /\ chords = <<>> /\ chord_index = 0 /\ live = 0 /\ acquired = 0
    /\ audio = <<>> /\ displayed = FALSE /\ returned = None

\* ChordsAI.__init__ and ChordSequencePlayer.__init__ have run
Constructed(resources) ==
    /\ vocabulary_json \in resources
    /\ _vocabulary = Sorted(vocabulary_json)
    /\ _mapping = Mapping(_vocabulary)
    /\ _inverse_mapping = InverseMapping(_vocabulary)
    /\ _seq_length \in 1..MaxL
    /\ _rate \in 1..MaxRate
    /\ map_is_iterator \in BOOLEAN
    /\ synth_channels \in {1, 2}
    /\ pc = "idle" /\ error = ""
    /\ GenIdle /\ ChordIdle /\ PlayIdle

Init == Constructed(PackagedVocabularies)

GenPcs == {"g_loop", "g_predict", "g_sample", "g_decode", "g_done", "g_failed"}

PlayPcs == {"p_loop", "p_synth", "p_sfload", "p_noteon", "p_noteoff", "p_append",
            "p_display", "p_done", "p_failed"}

\* ---------------------------------------------------- ChordsAI.generate_seq
\* lines 90-93: split the seed, assert its length
CallGenerateSeq ==
    /\ pc = "idle"
    /\ \E seed \in Str(MaxSeedChars), n \in 0..MaxN :
        /\ seed_chord_sequence' = seed
        /\ n_chords_to_generate' = n
        /\ chord_sequence' = SplitWhitespace(seed)
        /\ IF SeedLengthOk(SplitWhitespace(seed), _seq_length)
           THEN pc' = "g_loop" /\ error' = ""
           ELSE pc' = "g_failed" /\ error' = "AssertionError"
    /\ UNCHANGED <<config, iteration, pad_encoded, padded, preds, yhat, generated,
                   n_encoded, n_predicted, n_sampled, chordv, ply>>

\* lines 96-102: next iteration, encode and truncate
GenEncode ==
    /\ pc = "g_loop"
    /\ iteration < n_chords_to_generate
    /\ IF CanEncode(_mapping, chord_sequence)
       THEN /\ pad_encoded' = PadSequences(Encode(_mapping, chord_sequence), _seq_length)
            /\ padded' = PadCount(Encode(_mapping, chord_sequence), _seq_length)
            /\ n_encoded' = n_encoded + Len(chord_sequence)
            /\ pc' = "g_predict" /\ error' = ""
       ELSE /\ pc' = "g_failed" /\ error' = "KeyError"
            /\ UNCHANGED <<pad_encoded, padded, n_encoded>>
    /\ UNCHANGED <<config, seed_chord_sequence, n_chords_to_generate, chord_sequence,
                   iteration, preds, yhat, generated, n_predicted, n_sampled, chordv, ply>>

\* line 106: self._model.predict(pad_encoded)[0]
GenPredict ==
    /\ pc = "g_predict"
    /\ \E p \in Predictions(_vocabulary) : preds' = p
    /\ n_predicted' = n_predicted + 1
    /\ pc' = "g_sample"
    /\ UNCHANGED <<config, error, seed_chord_sequence, n_chords_to_generate, chord_sequence,
                   iteration, pad_encoded, padded, yhat, generated, n_encoded, n_sampled,
                   chordv, ply>>

\* lines 109-110: draw one index
GenSample ==
    /\ pc = "g_sample"
    /\ \E y \in Choice(_vocabulary, preds) : yhat' = y
    /\ n_sampled' = n_sampled + 1
    /\ pc' = "g_decode"
    /\ UNCHANGED <<config, error, seed_chord_sequence, n_chords_to_generate, chord_sequence,
                   iteration, pad_encoded, padded, preds, generated, n_encoded, n_predicted,
                   chordv, ply>>

\* lines 113-123: scan the mapping, assert, append
GenDecode ==
    /\ pc = "g_decode"
    /\ IF _inverse_mapping[yhat] = ScanMapping(_mapping, yhat)
       THEN /\ chord_sequence' = Append(chord_sequence, ScanMapping(_mapping, yhat))
            /\ iteration' = iteration + 1
            /\ pc' = "g_loop" /\ error' = ""
       ELSE /\ pc' = "g_failed" /\ error' = "AssertionError"
            /\ UNCHANGED <<chord_sequence, iteration>>
    /\ UNCHANGED <<config, seed_chord_sequence, n_chords_to_generate, pad_encoded, padded,
                   preds, yhat, generated, n_encoded, n_predicted, n_sampled, chordv, ply>>

\* line 128: return the generated suffix
GenReturn ==
    /\ pc = "g_loop"
    /\ iteration = n_chords_to_generate
    /\ generated' = GeneratedSuffix(chord_sequence, _seq_length)
    /\ pc' = "g_done"
    /\ UNCHANGED <<config, error, seed_chord_sequence, n_chords_to_generate, chord_sequence,
                   iteration, pad_encoded, padded, preds, yhat, n_encoded, n_predicted,
                   n_sampled, chordv, ply>>

\* ------------------------------------------------ ChordSequencePlayer.play
\* lines 39-43: str(seq), audio = [], seq.split(" ")
CallPlay ==
    /\ pc = "idle"
    /\ \E str \in Str(MaxPlayChars) :
        /\ seq' = str
        /\ chords' = SplitSpace(str)
    /\ chord_index' = 0
    /\ audio' = <<>>
    /\ pc' = "p_loop"
    /\ UNCHANGED <<config, error, gen, chordv, live, acquired, displayed, returned>>

\* line 43 and _make_chord lines 59-62: next chord, its notes, their MIDI numbers
MakeChordLookup ==
    /\ pc = "p_loop"
    /\ chord_index < Len(chords)
    /\ chord_index' = chord_index + 1
    /\ IF Components(ChordComponents, chords[chord_index + 1]) # KeyError
       THEN /\ midi_notes' = MidiNotes(Components(ChordComponents, chords[chord_index + 1]))
            /\ consumed' = 0 /\ loop_index' = 0
            /\ events' = <<>> /\ notes_on' = <<>> /\ s' = <<>>
            /\ pc' = "p_synth" /\ error' = ""
       ELSE /\ pc' = "p_failed" /\ error' = "KeyError"
            /\ UNCHANGED chordv
    /\ UNCHANGED <<config, gen, seq, chords, live, acquired, audio, displayed, returned>>

\* line 65: fluidsynth.Synth(self._rate)
SynthNew ==
    /\ pc = "p_synth"
    /\ live' = live + 1
    /\ acquired' = acquired + 1
    /\ events' = Append(events, SynthEvent("Synth", 0))
    /\ pc' = "p_sfload"
    /\ UNCHANGED <<config, error, gen, midi_notes, consumed, loop_index, notes_on, s,
                   seq, chords, chord_index, audio, displayed, returned>>

\* lines 66-67: sfload, program_select; the note-on loop starts
SynthLoad ==
    /\ pc = "p_sfload"
    /\ events' = events \o <<SynthEvent("sfload", 0), SynthEvent("program_select", 0)>>
    /\ loop_index' = LoopStart(map_is_iterator, consumed)
    /\ pc' = "p_noteon"
    /\ UNCHANGED <<config, error, gen, midi_notes, consumed, notes_on, s, ply>>

\* lines 70-71: fl.noteon(0, note, 60) for the next note
NoteOn ==
    /\ pc = "p_noteon"
    /\ loop_index < Len(midi_notes)
    /\ events' = Append(events, SynthEvent("noteon", midi_notes[loop_index + 1]))
    /\ notes_on' = Append(notes_on, midi_notes[loop_index + 1])
    /\ loop_index' = loop_index + 1
    /\ consumed' = loop_index + 1
    /\ UNCHANGED <<config, pc, error, gen, midi_notes, s, ply>>

\* line 74: the note-on loop is over, fl.get_samples(self._rate); the
\* note-off loop starts
Capture ==
    /\ pc = "p_noteon"
    /\ loop_index = Len(midi_notes)
    /\ s' = GetSamples(_rate, synth_channels, chord_index)
    /\ events' = Append(events, SynthEvent("get_samples", _rate))
    /\ loop_index' = LoopStart(map_is_iterator, consumed)
    /\ pc' = "p_noteoff"
    /\ UNCHANGED <<config, error, gen, midi_notes, consumed, notes_on, ply>>

\* lines 77-78: fl.noteoff(0, note) for the next note
NoteOff ==
    /\ pc = "p_noteoff"
    /\ loop_index < Len(midi_notes)
    /\ events' = Append(events, SynthEvent("noteoff", midi_notes[loop_index + 1]))
    /\ loop_index' = loop_index + 1
    /\ consumed' = IF loop_index + 1 > consumed THEN loop_index + 1 ELSE consumed
    /\ UNCHANGED <<config, pc, error, gen, midi_notes, notes_on, s, ply>>

\* faulty variant: the synthesizer is never deleted
SynthDeleteForgotten ==
    /\ pc = "p_noteoff"
    /\ loop_index = Len(midi_notes)
    /\ events' = Append(events, SynthEvent("delete", 0))
    /\ pc' = "p_append"
    /\ UNCHANGED <<config, error, gen, midi_notes, consumed, loop_index, notes_on, s, ply>>

\* line 80: the note-off loop is over, fl.delete()
SynthDelete ==
    /\ pc = "p_noteoff"
    /\ loop_index = Len(midi_notes)
    /\ live' = live - 1
    /\ events' = Append(events, SynthEvent("delete", 0))
    /\ pc' = "p_append"
    /\ UNCHANGED <<config, error, gen, midi_notes, consumed, loop_index, notes_on, s,
                   seq, chords, chord_index, acquired, audio, displayed, returned>>

\* line 83 and play line 44: return s; audio = np.append(audio, s)
PlayAppend ==
    /\ pc = "p_append"
    /\ audio' = NpAppend(audio, s)
    /\ pc' = "p_loop"
    /\ UNCHANGED <<config, error, gen, chordv, seq, chords, chord_index, live, acquired,
                   displayed, returned>>

\* line 46: display(Audio(audio, rate=self._rate, autoplay=False))
PlayDisplay ==
    /\ pc = "p_loop"
    /\ chord_index = Len(chords)
    /\ displayed' = TRUE
    /\ pc' = "p_display"
    /\ UNCHANGED <<config, error, gen, chordv, seq, chords, chord_index, live, acquired,
                   audio, returned>>

\* line 48: return audio
PlayReturn ==
    /\ pc = "p_display"
    /\ returned' = audio
    /\ pc' = "p_done"
    /\ UNCHANGED <<config, error, gen, chordv, seq, chords, chord_index, live, acquired,
                   audio, displayed>>

Next ==
    \/ CallGenerateSeq \/ GenEncode \/ GenPredict \/ GenSample \/ GenDecode \/ GenReturn
    \/ CallPlay \/ MakeChordLookup \/ SynthNew \/ SynthLoad \/ NoteOn \/ Capture
    \/ NoteOff \/ SynthDelete \/ PlayAppend \/ PlayDisplay \/ PlayReturn

Spec == Init /\ [][Next]_vars

\* the same program, for any vocabulary resource (a JSON array may repeat a name)
InitAnyVocabulary == Constructed(VocabularyResources)

SpecAnyVocabulary == InitAnyVocabulary /\ [][Next]_vars

\* ------------------------------------------------------------ properties
SeedTokens == SplitWhitespace(seed_chord_sequence)

Vocabulary == Range(_vocabulary)

ValidSeed == Len(SeedTokens) = _seq_length /\ \A i \in 1..Len(SeedTokens) : SeedTokens[i] \in Vocabulary

KnownChord(c) == c \in DOMAIN ChordComponents

IsPrefix(a, b) == Len(a) <= Len(b) /\ SubSeq(b, 1, Len(a)) = a

\* C1: called with a seed of exactly L vocabulary tokens, generate_seq never
\* fails, and what it returns is n vocabulary tokens joined by single spaces:
\* the empty string when n = 0.
C1_GenerateReturnsNTokens ==
    (pc \in GenPcs /\ ValidSeed) =>
        /\ pc # "g_failed"
        /\ pc = "g_done" =>
            /\ generated # None
            /\ Len(SplitWhitespace(generated)) = n_chords_to_generate
            /\ \A i \in 1..Len(SplitWhitespace(generated)) : SplitWhitespace(generated)[i] \in Vocabulary
            /\ generated = Join(SplitWhitespace(generated))
            /\ (n_chords_to_generate = 0 => generated = <<>>)

C1_Witness ==
    /\ pc = "g_done" /\ ValidSeed /\ _seq_length = 2 /\ n_chords_to_generate = 2
    /\ Len(SplitWhitespace(generated)) = 2

\* C4: a seed whose number of whitespace-separated tokens is not L makes
\* generate_seq fail with the assertion, whatever n is, before any token is
\* encoded, the model is called or an index is drawn.
C4_WrongSeedLengthFails ==
    (pc \in GenPcs /\ Len(SeedTokens) # _seq_length) =>
        /\ pc = "g_failed" /\ error = "AssertionError"
        /\ n_encoded = 0 /\ n_predicted = 0 /\ n_sampled = 0
        /\ generated = None

C4_Witness ==
    /\ pc = "g_failed" /\ Len(SeedTokens) > _seq_length /\ n_chords_to_generate > 0
    /\ \A i \in 1..Len(SeedTokens) : SeedTokens[i] \in Vocabulary

MutualInverses ==
    /\ DOMAIN _mapping = Range(vocabulary_json)
    /\ DOMAIN _inverse_mapping = 0..(Len(vocabulary_json) - 1)
    /\ \A c \in Range(vocabulary_json) :
        _mapping[c] \in DOMAIN _inverse_mapping /\ _inverse_mapping[_mapping[c]] = c
    /\ \A i \in 0..(Len(vocabulary_json) - 1) :
        _inverse_mapping[i] \in DOMAIN _mapping /\ _mapping[_inverse_mapping[i]] = i

\* C6 as stated: for any JSON array of chord names the two mappings are
\* mutually inverse bijections between the names and 0..len(vocabulary)-1.
C6_AnyResourceBijection == MutualInverses

\* C6 amended: for any JSON array of chord names that are pairwise distinct
\* the two mappings are mutually inverse bijections between the names and
\* 0..len(vocabulary)-1.
C6_DistinctResourceBijection == NoDuplicates(vocabulary_json) => MutualInverses

C6_Witness ==
    /\ NoDuplicates(vocabulary_json) /\ Len(vocabulary_json) = 2
    /\ vocabulary_json # _vocabulary
    /\ _mapping[vocabulary_json[1]] = 1 /\ _inverse_mapping[1] = vocabulary_json[1]

\* C8: the window handed to the model in iteration i has L entries, none of
\* them padding, and is the encoding of the last L tokens of the seed
\* followed by the i tokens generated so far.
C8_WindowIsTrailingL ==
    pc = "g_predict" =>
        /\ Len(pad_encoded) = _seq_length
        /\ padded = 0
        /\ Len(chord_sequence) = _seq_length + iteration
        /\ SubSeq(chord_sequence, 1, _seq_length) = SeedTokens
        /\ \A j \in 1..Len(pad_encoded) :
            pad_encoded[j] = _mapping[chord_sequence[Len(chord_sequence) - _seq_length + j]]

C8_Witness ==
    /\ pc = "g_predict" /\ iteration = 1 /\ _seq_length = 2
    /\ chord_sequence[1] # chord_sequence[3]

\* C10: for every index that can be drawn the scan of the mapping finds a
\* chord, the one inverse_mapping holds, so the assertion after the scan
\* never fails and the empty string is never appended.
C10_ScanAgreesWithInverse ==
    /\ \A y \in 0..(Len(_vocabulary) - 1) :
        ScanMapping(_mapping, y) # <<>> /\ ScanMapping(_mapping, y) = _inverse_mapping[y]
    /\ pc = "g_decode" => yhat \in 0..(Len(_vocabulary) - 1)
    /\ (pc = "g_failed" /\ error = "AssertionError") => n_sampled = 0
    /\ \A i \in 1..Len(chord_sequence) : chord_sequence[i] # <<>>

C10_Witness ==
    /\ pc = "g_loop" /\ iteration = 2 /\ Len(_vocabulary) = 2
    /\ chord_sequence[Len(chord_sequence)] = _inverse_mapping[0]
    /\ chord_sequence[Len(chord_sequence) - 1] = _inverse_mapping[1]

PlayTokens == SplitSpace(seq)

HasUnknownChord == \E i \in 1..Len(PlayTokens) : ~KnownChord(PlayTokens[i])

FirstUnknownChord ==
    CHOOSE i \in 1..Len(PlayTokens) :
        ~KnownChord(PlayTokens[i]) /\ \A j \in 1..(i - 1) : KnownChord(PlayTokens[j])

\* the chord names of a sequence written as names joined by single spaces
SequenceOfKnownChords ==
    /\ seq = Join(SplitWhitespace(seq))
    /\ \A i \in 1..Len(SplitWhitespace(seq)) : KnownChord(SplitWhitespace(seq)[i])

\* C2: play of a sequence of k chord names, all in the components table,
\* returns a waveform of k * sample_rate samples, the i-th block of
\* sample_rate samples being the i-th chord's.
C2_WaveformLength ==
    (pc \in PlayPcs /\ SequenceOfKnownChords) =>
        /\ pc # "p_failed"
        /\ pc = "p_done" =>
            /\ Len(returned) = Len(SplitWhitespace(seq)) * _rate
            /\ \A j \in 1..Len(returned) : returned[j] = ((j - 1) \div _rate) + 1

\* C3: play of the empty string completes without error, renders no chord,
\* acquires no synthesizer instance and returns an empty waveform.
C3_EmptySequence ==
    (pc \in PlayPcs /\ seq = <<>>) =>
        /\ pc # "p_failed" /\ error = ""
        /\ chord_index = 0 /\ acquired = 0
        /\ pc = "p_done" => returned = <<>>

\* C5: when a token of the sequence is no key of the components table, play
\* renders the chords before the first such token and then fails there with
\* KeyError: the token is never passed over or rendered, and nothing is
\* displayed or returned.
C5_UnknownChordFails ==
    (pc \in PlayPcs /\ HasUnknownChord) =>
        /\ pc \notin {"p_display", "p_done"}
        /\ displayed = FALSE /\ returned = None
        /\ chord_index <= FirstUnknownChord
        /\ chord_index = FirstUnknownChord => (pc = "p_failed" /\ error = "KeyError")
        /\ pc = "p_failed" => chord_index = FirstUnknownChord
        /\ \A j \in 1..Len(audio) : KnownChord(chords[audio[j]])

C5_Witness ==
    /\ pc = "p_failed" /\ error = "KeyError" /\ chord_index = 2
    /\ Len(audio) > 0 /\ returned = None

\* the synthesizer calls of one chord, in the order of _make_chord
ExpectedEvents(notes, rate) ==
    <<SynthEvent("Synth", 0), SynthEvent("sfload", 0), SynthEvent("program_select", 0)>>
    \o [i \in 1..Len(notes) |-> SynthEvent("noteon", notes[i])]
    \o <<SynthEvent("get_samples", rate)>>
    \o [i \in 1..Len(notes) |-> SynthEvent("noteoff", notes[i])]
    \o <<SynthEvent("delete", 0)>>

\* C7: the synthesizer calls of one chord come in the order: instance
\* created, instrument loaded, note-on for every note, one capture of
\* sample_rate samples, note-off for every note started, instance released.
C7_ChordEventOrder ==
    pc \in {"p_synth", "p_sfload", "p_noteon", "p_noteoff", "p_append"} =>
        /\ IsPrefix(events, ExpectedEvents(midi_notes, _rate))
        /\ pc = "p_append" =>
            /\ events = ExpectedEvents(midi_notes, _rate)
            /\ \A i \in 1..Len(notes_on) : \E j \in 1..Len(events) :
                events[j] = SynthEvent("noteoff", notes_on[i])

\* C9: at most one synthesizer instance is alive at any time; an instance
\* lives only while its chord is rendered, so none is alive between chords,
\* when play returns, or when play fails on an unknown chord, whose lookup
\* comes before any instance is created for it.
C9_OneInstanceScoped ==
    /\ live \in {0, 1}
    /\ pc \in {"idle", "p_loop", "p_synth", "p_append", "p_display", "p_done", "p_failed"} => live = 0
    /\ pc \in {"p_sfload", "p_noteon", "p_noteoff"} => live = 1
    /\ pc \in {"p_loop", "p_display", "p_done"} => acquired = chord_index
    /\ pc = "p_failed" => (error = "KeyError" /\ acquired = chord_index - 1)

C9_Witness ==
    /\ pc = "p_failed" /\ error = "KeyError" /\ acquired = 1 /\ live = 0

====
